---- MODULE Spec2Model ----
(***************************************************************************)
(* Model of src/automation/insurance_lead_import.py: the lead import       *)
(* pipeline (consent check, field encryption, PostgreSQL upsert, S3        *)
(* archive, JSONL audit log) as run by main() -> LeadImporter.process_leads.*)
(*                                                                         *)
(* Python values: a str field that may hold ciphertext is a record         *)
(*   [t |-> "None"]                    Python None                         *)
(*   [t |-> "str", v |-> s]            a plain str (s = "" is the empty    *)
(*                                     string)                             *)
(*   [t |-> "token", key, iv, pt]      the str returned by Fernet.encrypt  *)
(* Every other field is a TLA+ string, Boolean or integer; in those fields *)
(* the string "None" stands for Python None.                               *)
(***************************************************************************)
EXTENDS Integers, Sequences, FiniteSets, TLC

\* ---------------------------------------------------------------- bounds
MaxBatch == 2
MaxRuns == 2
MaxLeads == 2
MaxFaults == 2
NumIV == 2

\* ------------------------------------------------------- program constants
DateLen == 10

VARIABLES
    keyEnv,           \* HIPAA_ENCRYPTION_KEY in the environment: "unset" | "valid" | "invalid"
    dbEnv,            \* DATABASE_URL in the environment: "unset" | "set"
    ENCRYPTION_KEY,   \* module constant, line 51
    DATABASE_URL,     \* module constant, line 52
    classDefTime,     \* datetime.now() evaluated when class InsuranceLead is defined
    now,              \* wall clock
    db,               \* table insurance_leads: lead_id -> row
    s3,               \* bucket S3_BUCKET: key -> body
    auditLog,         \* lines of /tmp/insurance_lead_audit.jsonl
    pc,               \* position of the process
    leads,            \* argument of process_leads
    idx,              \* 1-based position of the for loop
    processed_count,  \* local of process_leads
    encrypted_lead,   \* local of process_leads
    exc,              \* the exception being handled (str(e))
    returned,         \* value returned by process_leads, -1 before it returns
    run,              \* number of processes started so far
    faults,           \* number of environment failures so far
    submitted,        \* number of leads handed to process_leads so far
    hist,             \* per record of the current batch: what happened to it
    lastStoreTime,    \* lead_id -> clock value of the last committed _store_lead call
    firstWrite        \* lead_id -> the record of the first committed _store_lead call

vars == <<keyEnv, dbEnv, ENCRYPTION_KEY, DATABASE_URL, classDefTime, now, db, s3,
          auditLog, pc, leads, idx, processed_count, encrypted_lead, exc, returned,
          run, faults, submitted, hist, lastStoreTime, firstWrite>>

\* ------------------------------------------------------------ Python values
None == [t |-> "None"]
Str(s) == [t |-> "str", v |-> s]
NoLead == [lead_id |-> "None"]
NoKey == [src |-> "none", n |-> 0]
EnvKey == [src |-> "env", n |-> 0]
DefaultDatabaseUrl == "postgresql://localhost/wcag_platform"
EnvDatabaseUrl == "postgresql://db.internal/leads"
IVs == 1..NumIV

\* truth value of a Python str-or-None: `if value:` / `if not data:`
Truthy(value) == value.t = "token" \/ (value.t = "str" /\ value.v # "")

\* InsuranceLead.get_hipaa_fields
get_hipaa_fields == <<"date_of_birth", "household_income", "health_conditions", "phone", "email">>

HIPAAFields == {get_hipaa_fields[i] : i \in 1..Len(get_hipaa_fields)}

\* Fernet.generate_key(): a fresh random key for each process
generate_key(r) == [src |-> "generated", n |-> r]

\* encrypt whose token does not carry the plaintext
EncryptDropsPlaintext(key, data, iv) ==
    IF ~Truthy(data) THEN Str("")
    ELSE [t |-> "token", key |-> key, iv |-> iv, pt |-> ""]

\* encrypt that returns its argument
EncryptReturnsData(key, data, iv) == data

\* HIPAACompliantEncryption.encrypt: Fernet tokens carry a random IV
encrypt(key, data, iv) ==
    IF ~Truthy(data) THEN Str("")
    ELSE [t |-> "token", key |-> key, iv |-> iv, pt |-> data.v]

\* HIPAACompliantEncryption.decrypt; "InvalidToken" stands for the raised exception
decrypt(key, encrypted_data) ==
    IF ~Truthy(encrypted_data) THEN Str("")
    ELSE IF encrypted_data.t = "token" /\ encrypted_data.key = key THEN Str(encrypted_data.pt)
    ELSE Str("InvalidToken")

\* the dataclass InsuranceLead as the repository constructs it: created_at and
\* imported_at are never passed, so both take the class-level default
InsuranceLead(lead_id, first_name, email, phone, dob, income, health, coverage, consent, tcpa, t0) ==
    [lead_id |-> lead_id, source |-> "csv", first_name |-> first_name, last_name |-> "Doe",
     email |-> email, phone |-> phone, date_of_birth |-> dob, zip_code |-> "None",
     state |-> "None", coverage_type |-> coverage, household_income |-> income,
     health_conditions |-> health, current_coverage |-> "None",
     preferred_contact_time |-> "None", notes |-> "None",
     created_at |-> t0, imported_at |-> t0,
     consent_given |-> consent, tcpa_compliant |-> tcpa]

\* the leads a batch is drawn from
LeadPool(t0) ==
    { InsuranceLead("L1", "Ann", Str("a@x.org"), Str("555-0101"), None, None, None, "aca", TRUE, TRUE, t0),
      InsuranceLead("L1", "Anna", Str("anna@x.org"), Str(""), Str("1970-01-01"), None, None, "medicare", TRUE, TRUE, t0),
      InsuranceLead("L2", "Bob", Str(""), None, None, Str("50k"), Str("asthma"), "aca", TRUE, TRUE, t0),
      InsuranceLead("L2", "Bob", Str("b@x.org"), Str("555-0102"), None, Str("50k"), Str(""), "aca", TRUE, FALSE, t0),
      InsuranceLead("L1", "Ann", Str("a@x.org"), Str("555-0101"), None, None, None, "aca", FALSE, TRUE, t0) }

Batches(t0, room) ==
    UNION { [1..n -> LeadPool(t0)] : n \in 1..(IF room < MaxBatch THEN room ELSE MaxBatch) }

\* ------------------------------------------------------------------ history
NoHist == [gate |-> "none", enc |-> "none", encFailAt |-> 0, store |-> "none", arch |-> "none",
           auditFail |-> FALSE, ipFail |-> FALSE, logStart |-> 0, logEnd |-> 0, done |-> FALSE]

\* ---------------------------------------------------------------- AuditLogger
\* _get_ip_address whose except branch returns the empty string
GetIpAddressEmpty(lookupOk) == IF lookupOk THEN "203.0.113.7" ELSE ""

\* AuditLogger._get_ip_address
_get_ip_address(lookupOk) == IF lookupOk THEN "203.0.113.7" ELSE "unknown"

\* the event dictionary built by AuditLogger.log_event
AuditEvent(t, event_type, lead_id, details, lookupOk) ==
    [timestamp |-> t, event_type |-> event_type, lead_id |-> lead_id,
     details |-> details, user |-> "system", ip_address |-> _get_ip_address(lookupOk)]

\* log_event with the file opened in mode 'w': the line replaces the file
LogEventTruncatesFile(log, t, event_type, lead_id, details, lookupOk) ==
    <<AuditEvent(t, event_type, lead_id, details, lookupOk)>>

\* AuditLogger.log_event when open/write succeed: one line appended
log_event(log, t, event_type, lead_id, details, lookupOk) ==
    Append(log, AuditEvent(t, event_type, lead_id, details, lookupOk))

\* ---------------------------------------------------------------- LeadImporter
RECURSIVE EncryptFields(_, _, _, _)
\* the loop of LeadImporter._encrypt_lead over get_hipaa_fields, from position k
EncryptFields(lead, key, ivs, k) ==
    IF k > Len(get_hipaa_fields) THEN lead
    ELSE LET field == get_hipaa_fields[k]
             value == lead[field]
             next == IF Truthy(value)
                     THEN [lead EXCEPT ![field] = encrypt(key, value, ivs[field])]
                     ELSE lead
         IN EncryptFields(next, key, ivs, k + 1)

\* LeadImporter._encrypt_lead
_encrypt_lead(lead, key, ivs) == EncryptFields(lead, key, ivs, 1)

\* the INSERT ... ON CONFLICT (lead_id) DO UPDATE SET imported_at = EXCLUDED.imported_at
Upsert(table, lead) ==
    IF lead.lead_id \in DOMAIN table
    THEN [table EXCEPT ![lead.lead_id].imported_at = lead.imported_at]
    ELSE [id \in DOMAIN table \cup {lead.lead_id} |->
            IF id = lead.lead_id THEN lead ELSE table[id]]

\* created_at[:10], the date part of the ISO timestamp
DatePart(t) == t \div DateLen

\* the key of LeadImporter._archive_to_s3
ArchiveKey(lead) == <<"leads", lead.source, DatePart(lead.created_at), lead.lead_id>>

\* s3_client.put_object
PutObject(bucket, key, body) ==
    [k \in DOMAIN bucket \cup {key} |-> IF k = key THEN body ELSE bucket[k]]


\* -------------------------------------------------------------------- Init
Init ==
    /\ keyEnv \in {"unset", "valid", "invalid"}
    /\ dbEnv \in {"unset", "set"}
    /\ ENCRYPTION_KEY = NoKey
    /\ DATABASE_URL = "None"
    /\ classDefTime = 0
    /\ now = 0
    /\ db = << >>
    /\ s3 = << >>
    /\ auditLog = << >>
    /\ pc = "idle"
    /\ leads = << >>
    /\ idx = 0
    /\ processed_count = 0
    /\ encrypted_lead = NoLead
    /\ exc = "None"
    /\ returned = -1
    /\ run = 0
    /\ faults = 0
    /\ submitted = 0
    /\ hist = << >>
    /\ lastStoreTime = << >>
    /\ firstWrite = << >>

persistent == <<db, s3, auditLog, lastStoreTime, firstWrite>>
config == <<keyEnv, dbEnv, ENCRYPTION_KEY, DATABASE_URL, classDefTime, submitted>>
locals == <<leads, idx, processed_count, encrypted_lead, exc, returned, hist>>

CanFail == faults < MaxFaults

\* the record being processed
lead == leads[idx]

\* value of ENCRYPTION_KEY after line 51 in process number r
LoadedKey(env, r) ==
    IF env = "unset" THEN generate_key(r)
    ELSE IF env = "valid" THEN EnvKey
    ELSE [src |-> "invalid", n |-> 0]

\* value of DATABASE_URL after line 52
LoadedDatabaseUrl(env) == IF env = "unset" THEN DefaultDatabaseUrl ELSE EnvDatabaseUrl

\* A new process imports the module: the constants of lines 51-54 are read from
\* the environment and the class InsuranceLead is defined (lines 56-77), which
\* evaluates the defaults of created_at and imported_at once.
LoadModule ==
    /\ pc \in {"idle", "done", "aborted", "config_error"}
    /\ run < MaxRuns
    /\ submitted < MaxLeads
    /\ ENCRYPTION_KEY' = LoadedKey(keyEnv, run + 1)
    /\ DATABASE_URL' = LoadedDatabaseUrl(dbEnv)
    /\ run' = run + 1
    /\ now' = now + 1
    /\ classDefTime' = now + 1
    /\ pc' = "loaded"
    /\ leads' = << >>
    /\ idx' = 0
    /\ processed_count' = 0
    /\ encrypted_lead' = NoLead
    /\ exc' = "None"
    /\ returned' = -1
    /\ hist' = << >>
    /\ UNCHANGED <<keyEnv, dbEnv, persistent, faults, submitted>>

\* Fernet(key) accepts a key iff it is 32 url-safe base64-encoded bytes
FernetAccepts(key) == key.src \in {"env", "generated"}

\* main(): importer = LeadImporter(); HIPAACompliantEncryption.__init__ builds
\* Fernet(ENCRYPTION_KEY); an invalid key raises ValueError out of main.
NewLeadImporter ==
    /\ pc = "loaded"
    /\ pc' = IF FernetAccepts(ENCRYPTION_KEY) THEN "ready" ELSE "config_error"
    /\ UNCHANGED <<config, now, persistent, locals, run, faults>>

\* main(): leads = importer.import_from_*(...); if leads: importer.process_leads(leads)
\* up to the head of the for loop
ProcessLeadsBegin ==
    /\ pc = "ready"
    /\ \E batch \in Batches(classDefTime, MaxLeads - submitted) :
          /\ leads' = batch
          /\ hist' = [i \in 1..Len(batch) |-> NoHist]
          /\ submitted' = submitted + Len(batch)
    /\ idx' = 1
    /\ processed_count' = 0
    /\ pc' = "loop"
    /\ UNCHANGED <<keyEnv, dbEnv, ENCRYPTION_KEY, DATABASE_URL, classDefTime, now,
                   persistent, encrypted_lead, exc, returned, run, faults>>

\* the consent test with `and` for `or`: one flag is enough
AdmittedWithOneFlag(l) == l.consent_given \/ l.tcpa_compliant

\* the consent test of line 256
Admitted(l) == l.consent_given /\ l.tcpa_compliant

\* lines 256-263 with the contact address of the record added to the details
RejectLeadLogsContact ==
    /\ pc = "loop" /\ idx <= Len(leads)
    /\ ~Admitted(lead)
    /\ \E lookupOk \in BOOLEAN :
          /\ lookupOk \/ CanFail
          /\ faults' = IF lookupOk THEN faults ELSE faults + 1
          /\ auditLog' = log_event(auditLog, now + 1, "lead_rejected", lead.lead_id,
                                   [reason |-> "missing_consent", email |-> lead.email],
                                   lookupOk)
          /\ hist' = [hist EXCEPT ![idx] = [@ EXCEPT !.gate = "reject", !.logStart = Len(auditLog) + 1,
                                                     !.logEnd = Len(auditLog'), !.done = TRUE,
                                                     !.ipFail = ~lookupOk]]
    /\ now' = now + 1
    /\ idx' = idx + 1
    /\ UNCHANGED <<config, db, s3, lastStoreTime, firstWrite, pc, leads, processed_count,
                   encrypted_lead, exc, returned, run>>

\* lines 256-263 with a working audit file: lead_rejected is logged, continue
RejectLead ==
    /\ pc = "loop" /\ idx <= Len(leads)
    /\ ~Admitted(lead)
    /\ \E lookupOk \in BOOLEAN :
          /\ lookupOk \/ CanFail
          /\ faults' = IF lookupOk THEN faults ELSE faults + 1
          /\ auditLog' = log_event(auditLog, now + 1, "lead_rejected", lead.lead_id,
                                   [reason |-> "missing_consent"], lookupOk)
          /\ hist' = [hist EXCEPT ![idx] = [@ EXCEPT !.gate = "reject", !.logStart = Len(auditLog) + 1,
                                                     !.logEnd = Len(auditLog'), !.done = TRUE,
                                                     !.ipFail = ~lookupOk]]
    /\ now' = now + 1
    /\ idx' = idx + 1
    /\ UNCHANGED <<config, db, s3, lastStoreTime, firstWrite, pc, leads, processed_count,
                   encrypted_lead, exc, returned, run>>

\* lines 256-263 when open() or write() of the audit file raises: the exception
\* is caught by the handler of line 287
RejectLeadAuditFails ==
    /\ pc = "loop" /\ idx <= Len(leads)
    /\ ~Admitted(lead)
    /\ CanFail
    /\ faults' = faults + 1
    /\ now' = now + 1
    /\ hist' = [hist EXCEPT ![idx] = [@ EXCEPT !.gate = "reject", !.auditFail = TRUE,
                                               !.logStart = Len(auditLog) + 1]]
    /\ exc' = "OSError"
    /\ pc' = "except"
    /\ UNCHANGED <<config, persistent, leads, idx, processed_count, encrypted_lead, returned, run>>

\* line 266 reached without the test of line 256
AdmitLeadWithoutCheck ==
    /\ pc = "loop" /\ idx <= Len(leads)
    /\ hist' = [hist EXCEPT ![idx] = [@ EXCEPT !.gate = "admit", !.logStart = Len(auditLog) + 1]]
    /\ pc' = "encrypt"
    /\ UNCHANGED <<config, now, persistent, leads, idx, processed_count, encrypted_lead,
                   exc, returned, run, faults>>

\* line 256 for a record with both flags: fall through to line 266
AdmitLead ==
    /\ pc = "loop" /\ idx <= Len(leads)
    /\ Admitted(lead)
    /\ hist' = [hist EXCEPT ![idx] = [@ EXCEPT !.gate = "admit", !.logStart = Len(auditLog) + 1]]
    /\ pc' = "encrypt"
    /\ UNCHANGED <<config, now, persistent, leads, idx, processed_count, encrypted_lead,
                   exc, returned, run, faults>>

\* line 266 with _encrypt_lead working on its argument instead of a copy
EncryptLeadInPlace ==
    /\ pc = "encrypt"
    /\ \E ivs \in [HIPAAFields -> IVs] :
          /\ encrypted_lead' = _encrypt_lead(lead, ENCRYPTION_KEY, ivs)
          /\ leads' = [leads EXCEPT ![idx] = _encrypt_lead(lead, ENCRYPTION_KEY, ivs)]
    /\ hist' = [hist EXCEPT ![idx] = [@ EXCEPT !.enc = "ok"]]
    /\ pc' = "store"
    /\ UNCHANGED <<config, now, persistent, idx, processed_count, exc, returned, run, faults>>

\* line 266: encrypted_lead = self._encrypt_lead(lead)
EncryptLead ==
    /\ pc = "encrypt"
    /\ \E ivs \in [HIPAAFields -> IVs] :
          encrypted_lead' = _encrypt_lead(lead, ENCRYPTION_KEY, ivs)
    /\ hist' = [hist EXCEPT ![idx] = [@ EXCEPT !.enc = "ok"]]
    /\ pc' = "store"
    /\ UNCHANGED <<config, now, persistent, leads, idx, processed_count, exc, returned, run, faults>>

\* the local encrypted_lead of _encrypt_lead after the first n fields of
\* get_hipaa_fields went through the loop body of lines 303-306
PartiallyEncrypted(l, key, ivs, n) ==
    [f \in DOMAIN l |->
        IF (\E j \in 1..n : get_hipaa_fields[j] = f) /\ Truthy(l[f])
        THEN encrypt(key, l[f], ivs[f])
        ELSE l[f]]

\* _encrypt_lead with the encrypt error swallowed: the partly encrypted copy
\* is returned and goes on to _store_lead
EncryptLeadFailsAndReturnsPartial ==
    /\ pc = "encrypt"
    /\ CanFail
    /\ \E k \in 1..Len(get_hipaa_fields), ivs \in [HIPAAFields -> IVs] :
          /\ Truthy(lead[get_hipaa_fields[k]])
          /\ hist' = [hist EXCEPT ![idx] = [@ EXCEPT !.enc = "fail", !.encFailAt = k]]
          /\ encrypted_lead' = PartiallyEncrypted(lead, ENCRYPTION_KEY, ivs, k - 1)
    /\ faults' = faults + 1
    /\ pc' = "store"
    /\ UNCHANGED <<config, now, persistent, leads, idx, processed_count, exc, returned, run>>

\* line 266 when the encrypt call of field number k raises (only a non-empty
\* field is encrypted): the copy built so far, PartiallyEncrypted(lead, key,
\* ivs, k - 1), is a local of _encrypt_lead and is dropped with its frame;
\* encrypted_lead of process_leads is not assigned
EncryptLeadFails ==
    /\ pc = "encrypt"
    /\ CanFail
    /\ \E k \in 1..Len(get_hipaa_fields) :
          /\ Truthy(lead[get_hipaa_fields[k]])
          /\ hist' = [hist EXCEPT ![idx] = [@ EXCEPT !.enc = "fail", !.encFailAt = k]]
    /\ faults' = faults + 1
    /\ exc' = "EncryptError"
    /\ pc' = "except"
    /\ UNCHANGED <<config, now, persistent, leads, idx, processed_count, encrypted_lead, returned, run>>

\* line 269: self._store_lead(encrypted_lead), committed
StoreLead ==
    /\ pc = "store"
    /\ db' = Upsert(db, encrypted_lead)
    /\ now' = now + 1
    /\ lastStoreTime' = [id \in DOMAIN lastStoreTime \cup {encrypted_lead.lead_id} |->
                            IF id = encrypted_lead.lead_id THEN now + 1 ELSE lastStoreTime[id]]
    /\ firstWrite' = IF encrypted_lead.lead_id \in DOMAIN firstWrite THEN firstWrite
                     ELSE [id \in DOMAIN firstWrite \cup {encrypted_lead.lead_id} |->
                             IF id = encrypted_lead.lead_id THEN encrypted_lead ELSE firstWrite[id]]
    /\ hist' = [hist EXCEPT ![idx] = [@ EXCEPT !.store = "ok"]]
    /\ pc' = "archive"
    /\ UNCHANGED <<config, s3, auditLog, leads, idx, processed_count, encrypted_lead, exc,
                   returned, run, faults>>

\* a store failure that is re-raised out of process_leads
StoreLeadFailsAndAborts ==
    /\ pc = "store"
    /\ CanFail
    /\ faults' = faults + 1
    /\ now' = now + 1
    /\ hist' = [hist EXCEPT ![idx] = [@ EXCEPT !.store = "fail"]]
    /\ exc' = "OperationalError"
    /\ pc' = "aborted"
    /\ UNCHANGED <<config, persistent, leads, idx, processed_count, encrypted_lead, returned, run>>

\* a store failure that is swallowed: the record goes on to the archive step
StoreLeadFailsThenArchives ==
    /\ pc = "store"
    /\ CanFail
    /\ faults' = faults + 1
    /\ now' = now + 1
    /\ hist' = [hist EXCEPT ![idx] = [@ EXCEPT !.store = "fail"]]
    /\ pc' = "archive"
    /\ UNCHANGED <<config, persistent, leads, idx, processed_count, encrypted_lead, exc,
                   returned, run>>

\* line 269 when psycopg2.connect or cursor.execute raises: nothing is committed
StoreLeadFails ==
    /\ pc = "store"
    /\ CanFail
    /\ faults' = faults + 1
    /\ now' = now + 1
    /\ hist' = [hist EXCEPT ![idx] = [@ EXCEPT !.store = "fail"]]
    /\ exc' = "OperationalError"
    /\ pc' = "except"
    /\ UNCHANGED <<config, persistent, leads, idx, processed_count, encrypted_lead, returned, run>>

\* line 272: self._archive_to_s3(encrypted_lead), put_object succeeds
ArchiveToS3 ==
    /\ pc = "archive"
    /\ s3' = PutObject(s3, ArchiveKey(encrypted_lead), encrypted_lead)
    /\ hist' = [hist EXCEPT ![idx] = [@ EXCEPT !.arch = "ok"]]
    /\ pc' = "audit"
    /\ UNCHANGED <<config, now, db, auditLog, lastStoreTime, firstWrite, leads, idx,
                   processed_count, encrypted_lead, exc, returned, run, faults>>

\* _archive_to_s3 without its try/except: the put_object error reaches line 287
ArchiveToS3Raises ==
    /\ pc = "archive"
    /\ CanFail
    /\ faults' = faults + 1
    /\ hist' = [hist EXCEPT ![idx] = [@ EXCEPT !.arch = "fail"]]
    /\ exc' = "ClientError"
    /\ pc' = "except"
    /\ UNCHANGED <<config, now, persistent, leads, idx, processed_count, encrypted_lead,
                   returned, run>>

\* line 272 when put_object raises: caught at line 376, only a warning is logged
ArchiveToS3Fails ==
    /\ pc = "archive"
    /\ CanFail
    /\ faults' = faults + 1
    /\ hist' = [hist EXCEPT ![idx] = [@ EXCEPT !.arch = "fail"]]
    /\ pc' = "audit"
    /\ UNCHANGED <<config, now, persistent, leads, idx, processed_count, encrypted_lead,
                   exc, returned, run>>

\* lines 275-285 without the increment of line 285
AuditImportedWithoutCount ==
    /\ pc = "audit"
    /\ \E lookupOk \in BOOLEAN :
          /\ lookupOk \/ CanFail
          /\ faults' = IF lookupOk THEN faults ELSE faults + 1
          /\ auditLog' = log_event(auditLog, now + 1, "lead_imported", lead.lead_id,
                                   [source |-> lead.source, coverage_type |-> lead.coverage_type,
                                    encrypted |-> TRUE], lookupOk)
          /\ hist' = [hist EXCEPT ![idx] = [@ EXCEPT !.logEnd = Len(auditLog'), !.done = TRUE,
                                                     !.ipFail = ~lookupOk]]
    /\ now' = now + 1
    /\ processed_count' = processed_count
    /\ idx' = idx + 1
    /\ pc' = "loop"
    /\ UNCHANGED <<config, db, s3, lastStoreTime, firstWrite, leads, encrypted_lead, exc,
                   returned, run>>

\* lines 275-285: lead_imported is logged, processed_count += 1, next record
AuditImported ==
    /\ pc = "audit"
    /\ \E lookupOk \in BOOLEAN :
          /\ lookupOk \/ CanFail
          /\ faults' = IF lookupOk THEN faults ELSE faults + 1
          /\ auditLog' = log_event(auditLog, now + 1, "lead_imported", lead.lead_id,
                                   [source |-> lead.source, coverage_type |-> lead.coverage_type,
                                    encrypted |-> TRUE], lookupOk)
          /\ hist' = [hist EXCEPT ![idx] = [@ EXCEPT !.logEnd = Len(auditLog'), !.done = TRUE,
                                                     !.ipFail = ~lookupOk]]
    /\ now' = now + 1
    /\ processed_count' = processed_count + 1
    /\ idx' = idx + 1
    /\ pc' = "loop"
    /\ UNCHANGED <<config, db, s3, lastStoreTime, firstWrite, leads, encrypted_lead, exc,
                   returned, run>>

\* lines 275-283 when the audit file cannot be written: caught at line 287
AuditImportedFails ==
    /\ pc = "audit"
    /\ CanFail
    /\ faults' = faults + 1
    /\ now' = now + 1
    /\ hist' = [hist EXCEPT ![idx] = [@ EXCEPT !.auditFail = TRUE]]
    /\ exc' = "OSError"
    /\ pc' = "except"
    /\ UNCHANGED <<config, persistent, leads, idx, processed_count, encrypted_lead, returned, run>>

\* a handler that logs to the application log only and writes no audit entry
HandleExceptionWithoutAudit ==
    /\ pc = "except"
    /\ hist' = [hist EXCEPT ![idx] = [@ EXCEPT !.logEnd = Len(auditLog), !.done = TRUE]]
    /\ exc' = "None"
    /\ idx' = idx + 1
    /\ pc' = "loop"
    /\ UNCHANGED <<config, now, persistent, leads, processed_count, encrypted_lead,
                   returned, run, faults>>

\* lines 287-293: the handler logs lead_import_failed and the loop goes on
HandleException ==
    /\ pc = "except"
    /\ \E lookupOk \in BOOLEAN :
          /\ lookupOk \/ CanFail
          /\ faults' = IF lookupOk THEN faults ELSE faults + 1
          /\ auditLog' = log_event(auditLog, now + 1, "lead_import_failed", lead.lead_id,
                                   [error |-> exc], lookupOk)
          /\ hist' = [hist EXCEPT ![idx] = [@ EXCEPT !.logEnd = Len(auditLog'), !.done = TRUE,
                                                     !.ipFail = ~lookupOk]]
    /\ now' = now + 1
    /\ exc' = "None"
    /\ idx' = idx + 1
    /\ pc' = "loop"
    /\ UNCHANGED <<config, db, s3, lastStoreTime, firstWrite, leads, processed_count,
                   encrypted_lead, returned, run>>

\* lines 289-293 when the audit file cannot be written: the exception leaves
\* process_leads and main, the process ends with a traceback
HandleExceptionAuditFails ==
    /\ pc = "except"
    /\ CanFail
    /\ faults' = faults + 1
    /\ now' = now + 1
    /\ hist' = [hist EXCEPT ![idx] = [@ EXCEPT !.auditFail = TRUE]]
    /\ exc' = "OSError"
    /\ pc' = "aborted"
    /\ UNCHANGED <<config, persistent, leads, idx, processed_count, encrypted_lead, returned, run>>

\* lines 295-296: the loop is over, return processed_count
ReturnCount ==
    /\ pc = "loop" /\ idx > Len(leads)
    /\ returned' = processed_count
    /\ pc' = "done"
    /\ UNCHANGED <<config, now, persistent, leads, idx, processed_count, encrypted_lead,
                   exc, run, faults, hist>>

Next ==
    \/ LoadModule
    \/ NewLeadImporter
    \/ ProcessLeadsBegin
    \/ RejectLead
    \/ RejectLeadAuditFails
    \/ AdmitLead
    \/ EncryptLead
    \/ EncryptLeadFails
    \/ StoreLead
    \/ StoreLeadFails
    \/ ArchiveToS3
    \/ ArchiveToS3Fails
    \/ AuditImported
    \/ AuditImportedFails
    \/ HandleException
    \/ HandleExceptionAuditFails
    \/ ReturnCount

Spec == Init /\ [][Next]_vars

\* ------------------------------------------------- a batch of three records
\* records in the one batch of the three-record run
ScenarioBatch == 3

\* main() handing process_leads one batch of ScenarioBatch records
ProcessLeadsBeginScenario ==
    /\ pc = "ready"
    /\ submitted = 0
    /\ \E batch \in [1..ScenarioBatch -> LeadPool(classDefTime)] :
          /\ leads' = batch
          /\ hist' = [i \in 1..Len(batch) |-> NoHist]
          /\ submitted' = Len(batch)
    /\ idx' = 1
    /\ processed_count' = 0
    /\ pc' = "loop"
    /\ UNCHANGED <<keyEnv, dbEnv, ENCRYPTION_KEY, DATABASE_URL, classDefTime, now,
                   persistent, encrypted_lead, exc, returned, run, faults>>

NextScenario ==
    \/ LoadModule
    \/ NewLeadImporter
    \/ ProcessLeadsBeginScenario
    \/ RejectLead
    \/ RejectLeadAuditFails
    \/ AdmitLead
    \/ EncryptLead
    \/ EncryptLeadFails
    \/ StoreLead
    \/ StoreLeadFails
    \/ ArchiveToS3
    \/ ArchiveToS3Fails
    \/ AuditImported
    \/ AuditImportedFails
    \/ HandleException
    \/ HandleExceptionAuditFails
    \/ ReturnCount

SpecScenario == Init /\ [][NextScenario]_vars


\* ------------------------------------------------------------ the audit file
\* the entries appended while record i of the current batch was processed
Segment(i) == SubSeq(auditLog, hist[i].logStart, hist[i].logEnd)

CountKind(seq, kind) == Cardinality({k \in 1..Len(seq) : seq[k].event_type = kind})

Records == 1..Len(hist)

\* a regulated field value that is absent, empty or a Fernet token
EmptyOrCiphertext(value) == value.t = "None" \/ value.t = "token" \/ (value.t = "str" /\ value.v = "")

\* the records of the current batch that ended with a lead_imported entry
StoredRecords ==
    {j \in Records : hist[j].done /\ CountKind(Segment(j), "lead_imported") >= 1}

AllProtected(l) == \A f \in HIPAAFields : EmptyOrCiphertext(l[f])

\* --------------------------------------------------------------------- C1
\* C1: the consent gate admits a record iff consent_given and tcpa_compliant
\* are both true, and a record with either flag false is never passed to
\* _encrypt_lead, _store_lead or _archive_to_s3.
C1_OnlyConsentedLeadsAdmitted ==
    /\ \A i \in Records :
          /\ hist[i].gate # "none" =>
                (hist[i].gate = "admit" <=> (leads[i].consent_given /\ leads[i].tcpa_compliant))
          /\ (~leads[i].consent_given \/ ~leads[i].tcpa_compliant) =>
                /\ hist[i].enc = "none"
                /\ hist[i].store = "none"
                /\ hist[i].arch = "none"
    /\ pc \in {"encrypt", "store", "archive", "audit"} =>
          (leads[idx].consent_given /\ leads[idx].tcpa_compliant)

\* a batch in which one record was rejected and another one went through
\* protect, store and archive
C1_Witness ==
    \E i, j \in Records :
        /\ hist[i].gate = "reject" /\ hist[i].done
        /\ ~leads[i].tcpa_compliant
        /\ hist[j].gate = "admit" /\ hist[j].enc = "ok" /\ hist[j].store = "ok" /\ hist[j].arch = "ok"

\* --------------------------------------------------------------------- C2
\* C2: the record handed to _store_lead and to _archive_to_s3, every row of
\* the table and every archived object has each of the five regulated fields
\* absent, empty or ciphertext: no plaintext regulated value is persisted.
C2_NoPlaintextPersisted ==
    /\ pc \in {"store", "archive"} => AllProtected(encrypted_lead)
    /\ \A id \in DOMAIN db : AllProtected(db[id])
    /\ \A k \in DOMAIN s3 : AllProtected(s3[k])

\* a row and an archived object with encrypted, empty and absent regulated fields
C2_Witness ==
    \E id \in DOMAIN db, k \in DOMAIN s3 :
        /\ db[id].email.t = "token" /\ db[id].date_of_birth.t = "token"
        /\ db[id].phone = Str("") /\ db[id].household_income = None
        /\ s3[k].household_income.t = "token" /\ s3[k].email = Str("")


\* --------------------------------------------------------------------- C3
\* C3: persisting the same lead_id again leaves one row per lead_id, whose
\* imported_at is the time of the most recent _store_lead call and whose
\* other fields are those of the first committed write.
C3_UpsertKeepsFirstWriteAndCallTime ==
    /\ DOMAIN db = DOMAIN firstWrite
    /\ \A id \in DOMAIN db :
          /\ db[id].imported_at = lastStoreTime[id]
          /\ [db[id] EXCEPT !.imported_at = 0] = [firstWrite[id] EXCEPT !.imported_at = 0]

\* --------------------------------------------------------------------- C4
\* C4: a record with consent_given or tcpa_compliant false whose processing
\* has ended got exactly one audit entry, of kind lead_rejected with reason
\* missing_consent, and no entry of another kind.
C4_RejectedAuditedExactlyOnce ==
    \A i \in Records :
        (hist[i].done /\ (~leads[i].consent_given \/ ~leads[i].tcpa_compliant)) =>
            /\ Len(Segment(i)) = 1
            /\ Segment(i)[1].event_type = "lead_rejected"
            /\ Segment(i)[1].lead_id = leads[i].lead_id
            /\ Segment(i)[1].details = [reason |-> "missing_consent"]

\* --------------------------------------------------------------------- C5
\* C5: a record whose processing has ended got exactly one lead_imported
\* entry if its primary-store write committed, and none otherwise.
C5_StoredAuditedExactlyOnce ==
    \A i \in Records :
        hist[i].done =>
            CountKind(Segment(i), "lead_imported") = (IF hist[i].store = "ok" THEN 1 ELSE 0)

\* --------------------------------------------------------------------- C6
\* C6: a record whose primary-store write raised and whose processing has
\* ended got exactly one audit entry, lead_import_failed carrying the error,
\* it did not add to processed_count, the loop went on to the next record,
\* and when process_leads returns every record of the batch was processed.
C6_StoreFailureIsolatedToRecord ==
    /\ \A i \in Records :
          (hist[i].done /\ hist[i].store = "fail") =>
              /\ Len(Segment(i)) = 1
              /\ Segment(i)[1].event_type = "lead_import_failed"
              /\ Segment(i)[1].lead_id = leads[i].lead_id
              /\ Segment(i)[1].details = [error |-> "OperationalError"]
              /\ idx > i
              /\ i \notin StoredRecords
              /\ processed_count = Cardinality(StoredRecords)
    /\ pc = "done" =>
          /\ \A i \in Records : hist[i].done
          /\ returned = Cardinality(StoredRecords)

\* Scenario B: a returned batch of 2, one record failed in the store, the
\* other stored, success 1 of 2
C6_Witness ==
    /\ pc = "done" /\ Len(leads) = 2 /\ returned = 1
    /\ hist[1].store = "fail" /\ hist[2].store = "ok"
    /\ CountKind(Segment(1), "lead_import_failed") = 1
    /\ CountKind(Segment(2), "lead_imported") = 1

\* --------------------------------------------------------------------- C7
\* C7: a failed archive write never becomes the record's outcome: the
\* exception handled at line 287 is never the archive's, and a record whose
\* store committed and whose archive failed ends exactly as one whose
\* archive succeeded: with its lead_imported entry appended it has that one
\* entry, no lead_import_failed entry, and is counted.
C7_ArchiveFailureKeepsOutcome ==
    /\ (pc = "except" /\ hist[idx].arch = "fail") => (hist[idx].auditFail /\ exc = "OSError")
    /\ \A i \in Records :
          (hist[i].done /\ hist[i].store = "ok" /\ hist[i].arch = "fail" /\ ~hist[i].auditFail) =>
              /\ Len(Segment(i)) = 1
              /\ Segment(i)[1].event_type = "lead_imported"
              /\ Segment(i)[1].lead_id = leads[i].lead_id
              /\ CountKind(Segment(i), "lead_import_failed") = 0
              /\ i \in StoredRecords
              /\ processed_count = Cardinality(StoredRecords)

\* Scenario C: archive unavailable, primary store healthy, the run returned 1
C7_Witness ==
    /\ pc = "done" /\ returned = 1 /\ Len(leads) = 1
    /\ hist[1].store = "ok" /\ hist[1].arch = "fail"
    /\ leads[1].lead_id \in DOMAIN db
    /\ CountKind(Segment(1), "lead_imported") = 1
    /\ DOMAIN s3 = {}


\* --------------------------------------------------------------------- C8
\* C8: process_leads is left by an exception only when the audit file could
\* not be written inside the handler, never because a record was rejected or
\* its store failed; when it returns, every record of the batch was
\* processed; processed_count is the number of records that ended with a
\* lead_imported entry, never exceeds the batch size and never decreases
\* during a run.
C8_BatchNeverAbortedByRecordFailure ==
    /\ [](/\ pc = "aborted" => (exc = "OSError" /\ hist[idx].auditFail)
          /\ pc = "done" =>
                /\ \A i \in Records : hist[i].done
                /\ returned = processed_count
          /\ processed_count = Cardinality(StoredRecords)
          /\ processed_count <= Len(leads))
    /\ [][pc' = "loaded" \/ processed_count' >= processed_count]_vars

\* a returned batch of 2 in which one record was rejected and the other
\* failed in the store
C8_Witness ==
    /\ pc = "done" /\ Len(leads) = 2 /\ returned = 0
    /\ hist[1].gate = "reject" /\ hist[1].done
    /\ hist[2].store = "fail" /\ hist[2].done

\* --------------------------------------------------------------------- C9
\* C9: once an append to the audit file has failed while a record was
\* processed, the run does not go on: that record is not completed, no later
\* record is processed and no count is returned.
C9_AuditFailureFailsRun ==
    \A i \in Records :
        hist[i].auditFail => (idx = i /\ ~hist[i].done /\ pc \in {"except", "aborted"})

\* -------------------------------------------------------------------- C10
\* C10: with HIPAA_ENCRYPTION_KEY or DATABASE_URL not set, no record is ever
\* gated, protected, stored, archived or audited.
C10_MissingConfigAbortsRun ==
    (keyEnv = "unset" \/ dbEnv = "unset") =>
        /\ \A i \in Records : hist[i].gate = "none"
        /\ db = << >> /\ s3 = << >> /\ auditLog = << >>


\* -------------------------------------------------------------------- C11
\* C11: once protecting a record has failed, the run is over: no later record
\* of the batch is gated, stored, archived or counted, and process_leads
\* does not return a count.
C11_EncryptionFailureEndsRun ==
    \A i \in Records :
        hist[i].enc = "fail" =>
            /\ pc # "done"
            /\ \A j \in Records : j > i => hist[j] = NoHist

\* -------------------------------------------------------------------- C12
\* C12: for every admitted and protected record whose processing has ended,
\* the primary-store write and the archive write were both attempted.
C12_BothSinksAttempted ==
    \A i \in Records :
        (hist[i].done /\ hist[i].enc = "ok") =>
            (hist[i].store # "none" /\ hist[i].arch # "none")

\* -------------------------------------------------------------------- C13
\* C13: a record whose processing has ended with a lead_import_failed entry
\* is one whose primary-store write failed; a record whose write committed
\* ended with a lead_imported entry.
C13_FailedOnlyIfStoreFailed ==
    \A i \in Records :
        hist[i].done =>
            /\ CountKind(Segment(i), "lead_import_failed") >= 1 => hist[i].store = "fail"
            /\ hist[i].store = "ok" => CountKind(Segment(i), "lead_imported") = 1

\* -------------------------------------------------------------------- C14
\* C14: an object of the archive is never overwritten or removed: every key
\* present before a step holds the same body after it.
C14_ArchiveWriteOnce ==
    [][\A k \in DOMAIN s3 : k \in DOMAIN s3' /\ s3'[k] = s3[k]]_vars


\* -------------------------------------------------------------------- C15
\* enc is orig with every non-empty regulated field replaced by a token of
\* that field's value, and nothing else changed
IsProtectionOf(orig, enc) ==
    /\ DOMAIN enc = DOMAIN orig
    /\ \A f \in DOMAIN orig :
          IF f \in HIPAAFields /\ orig[f].t = "str" /\ orig[f].v # ""
          THEN enc[f].t = "token" /\ enc[f].pt = orig[f].v
          ELSE enc[f] = orig[f]

\* C15: a record whose protection failed part-way is never handed to
\* _store_lead or _archive_to_s3; the record handed to them is the complete
\* protection of the record being processed, and no row or archived object
\* holds a regulated field in plaintext.
C15_NoPartiallyProtectedRecordPersisted ==
    /\ \A i \in Records :
          hist[i].enc = "fail" => (hist[i].store = "none" /\ hist[i].arch = "none")
    /\ pc \in {"store", "archive"} =>
          (hist[idx].enc = "ok" /\ IsProtectionOf(leads[idx], encrypted_lead))
    /\ \A id \in DOMAIN db : \A f \in HIPAAFields : db[id][f].t # "str" \/ db[id][f].v = ""
    /\ \A k \in DOMAIN s3 : \A f \in HIPAAFields : s3[k][f].t # "str" \/ s3[k][f].v = ""

\* protecting a record failed at a field after an earlier field had been
\* encrypted; the record was audited as failed and is in neither sink
C15_Witness ==
    \E i \in Records :
        /\ hist[i].enc = "fail" /\ hist[i].done
        /\ \E j \in 1..(hist[i].encFailAt - 1) :
              leads[i][get_hipaa_fields[j]].t = "str" /\ leads[i][get_hipaa_fields[j]].v # ""
        /\ leads[i].lead_id \notin DOMAIN db
        /\ DOMAIN s3 = {}


\* -------------------------------------------------------------------- C16
\* C16: the audit file only grows at its end: every step leaves it unchanged
\* or appends exactly one entry after the entries already there, and each
\* step that completes a log_event call (the rejection, the import and the
\* handler's entry) appends exactly one.
C16_AuditLogAppendOnly ==
    [][/\ \/ auditLog' = auditLog
          \/ /\ Len(auditLog') = Len(auditLog) + 1
             /\ SubSeq(auditLog', 1, Len(auditLog)) = auditLog
       /\ (pc \in {"loop", "audit", "except"} /\ idx' = idx + 1) =>
             Len(auditLog') = Len(auditLog) + 1]_vars

\* two runs have written to the same file: entries of both are in it
C16_Witness ==
    /\ run = 2
    /\ Len(auditLog) >= 2
    /\ auditLog[1].timestamp < classDefTime
    /\ auditLog[Len(auditLog)].timestamp > classDefTime


\* -------------------------------------------------------------------- C17
\* record i met no failure of encryption, store, archive or audit file
Healthy(i) ==
    /\ hist[i].enc # "fail"
    /\ hist[i].store # "fail"
    /\ hist[i].arch # "fail"
    /\ ~hist[i].auditFail

\* the audit entries appended since the current batch began
BatchEntries == SubSeq(auditLog, hist[1].logStart, Len(auditLog))

\* C17: when process_leads returns from a batch in which the store, the
\* archive and the audit file never failed, the batch added exactly one audit
\* entry per record, the returned count is the number of records with both
\* flags true and the number of lead_rejected entries is the number of records
\* with a flag false.
C17_HealthyBatchCounts ==
    (pc = "done" /\ \A i \in Records : Healthy(i)) =>
        /\ \A i \in Records : Len(Segment(i)) = 1
        /\ Len(BatchEntries) = Len(leads)
        /\ returned = Cardinality({i \in Records :
                                      leads[i].consent_given /\ leads[i].tcpa_compliant})
        /\ CountKind(BatchEntries, "lead_imported") = returned
        /\ CountKind(BatchEntries, "lead_rejected") =
              Cardinality({i \in Records :
                              ~leads[i].consent_given \/ ~leads[i].tcpa_compliant})

\* three records, one of them with tcpa_compliant false: 2 stored, 1 rejected,
\* 3 audit entries
C17_Witness ==
    /\ pc = "done"
    /\ Len(leads) = 3
    /\ \A i \in Records : Healthy(i)
    /\ Cardinality({i \in Records : leads[i].consent_given /\ ~leads[i].tcpa_compliant}) = 1
    /\ Cardinality({i \in Records : leads[i].consent_given /\ leads[i].tcpa_compliant}) = 2
    /\ returned = 2
    /\ CountKind(BatchEntries, "lead_rejected") = 1
    /\ Len(auditLog) = 3

\* -------------------------------------------------------------------- C18
\* value is what _encrypt_lead makes of the regulated field value x under key:
\* a non-empty x becomes a Fernet token that differs from x and decrypts to
\* exactly x; an empty or absent x is left as it is
RoundTrips(key, x, value) ==
    IF x.t = "str" /\ x.v # ""
    THEN /\ value.t = "token"
         /\ value # x
         /\ decrypt(key, value) = x
    ELSE value = x

\* C18: in the record handed to the store and the archive, and in the object
\* the archive step has just written, every non-empty regulated field is a
\* ciphertext different from its plaintext that decrypt turns back into exactly
\* the plaintext under the key of the process; an empty or absent field is
\* unchanged; decrypt of an empty or absent value is the empty string.
C18_RoundTrip ==
    /\ decrypt(ENCRYPTION_KEY, Str("")) = Str("")
    /\ decrypt(ENCRYPTION_KEY, None) = Str("")
    /\ pc \in {"store", "archive", "audit"} =>
          \A f \in HIPAAFields : RoundTrips(ENCRYPTION_KEY, leads[idx][f], encrypted_lead[f])
    /\ (pc = "audit" /\ hist[idx].arch = "ok") =>
          \A f \in HIPAAFields :
              RoundTrips(ENCRYPTION_KEY, leads[idx][f], s3[ArchiveKey(encrypted_lead)][f])

\* a record with a non-empty, an empty and an absent regulated field was
\* protected, stored and archived
C18_Witness ==
    /\ pc = "audit"
    /\ hist[idx].store = "ok" /\ hist[idx].arch = "ok"
    /\ \E f \in HIPAAFields : leads[idx][f].t = "str" /\ leads[idx][f].v # ""
    /\ \E f \in HIPAAFields : leads[idx][f] = Str("")
    /\ \E f \in HIPAAFields : leads[idx][f] = None

\* -------------------------------------------------------------------- C19
\* first is a protection of record l under key
ProtectedUnder(key, l, first) ==
    /\ IsProtectionOf(l, first)
    /\ \A f \in HIPAAFields : first[f].t = "token" => first[f].key = key

\* C19: protection is deterministic: when the record being processed was
\* protected before under the key of the process (the first protection of its
\* lead_id is a protection of this very record), the new protection has the
\* same ciphertext in each of the five regulated fields.
C19_ProtectionDeterministic ==
    (/\ pc = "store"
     /\ leads[idx].lead_id \in DOMAIN firstWrite
     /\ ProtectedUnder(ENCRYPTION_KEY, leads[idx], firstWrite[leads[idx].lead_id])) =>
        \A f \in HIPAAFields : encrypted_lead[f] = firstWrite[leads[idx].lead_id][f]

\* -------------------------------------------------------------------- C20
\* the kind of the one audit entry of a completed record, by what happened to
\* the record before the entry was written
OutcomeKind(i) ==
    IF hist[i].gate = "reject" /\ ~hist[i].auditFail THEN "lead_rejected"
    ELSE IF hist[i].enc = "ok" /\ hist[i].store = "ok" /\ ~hist[i].auditFail THEN "lead_imported"
    ELSE "lead_import_failed"

\* C20: a failed origin-address lookup inside log_event is never the exception
\* the handler sees and never stops the run; the entry of the record is still
\* appended, with ip_address "unknown", and it is the entry the record's
\* outcome calls for (and only a lead_imported entry is counted), exactly as
\* when the lookup succeeds.
C20_LookupFailureSubstituted ==
    /\ exc \in {"None", "OSError", "EncryptError", "OperationalError"}
    /\ \A i \in Records :
          hist[i].done =>
              /\ Len(Segment(i)) = 1
              /\ Segment(i)[1].event_type = OutcomeKind(i)
              /\ Segment(i)[1].ip_address = (IF hist[i].ipFail THEN "unknown" ELSE "203.0.113.7")
    /\ pc = "aborted" => hist[idx].auditFail /\ ~hist[idx].ipFail
    /\ processed_count = Cardinality({i \in Records : hist[i].done /\ OutcomeKind(i) = "lead_imported"})

\* the lookup failed for a rejected record and for a stored record of one
\* batch, and process_leads returned the count of the stored one
C20_Witness ==
    /\ pc = "done"
    /\ returned = 1
    /\ \E i, j \in Records :
          /\ hist[i].ipFail /\ hist[i].gate = "reject"
          /\ hist[j].ipFail /\ hist[j].store = "ok"
          /\ Segment(i)[1].ip_address = "unknown"
          /\ Segment(j)[1].ip_address = "unknown"

\* -------------------------------------------------------------------- C21
\* the step appends an audit entry of the given kind
Appends(kind) ==
    /\ Len(auditLog') = Len(auditLog) + 1
    /\ auditLog'[Len(auditLog')].event_type = kind

\* the step is a call of _store_lead or of _archive_to_s3 for record idx
StoreAttempted == idx \in DOMAIN hist /\ idx \in DOMAIN hist' /\ hist'[idx].store # hist[idx].store
ArchiveAttempted == idx \in DOMAIN hist /\ idx \in DOMAIN hist' /\ hist'[idx].arch # hist[idx].arch

\* C21: the steps of an admitted record come in the order consent check,
\* protect, primary-store write, archive write, audit entry: the store is
\* called and written only with the completed protection of an admitted
\* record, the archive is called and written only after the store call of that
\* record committed, and lead_imported is appended only after both the store
\* and the archive were attempted.
C21_FixedStepOrder ==
    /\ [](\A i \in Records :
            /\ hist[i].enc # "none" => hist[i].gate = "admit"
            /\ hist[i].store # "none" => hist[i].enc = "ok"
            /\ hist[i].arch # "none" => hist[i].store = "ok"
            /\ (hist[i].done /\ CountKind(Segment(i), "lead_imported") >= 1) =>
                  (hist[i].store = "ok" /\ hist[i].arch # "none"))
    /\ [][/\ (StoreAttempted \/ db' # db \/ lastStoreTime' # lastStoreTime) =>
                /\ leads[idx].consent_given /\ leads[idx].tcpa_compliant
                /\ hist[idx].gate = "admit" /\ hist[idx].enc = "ok"
                /\ hist[idx].store = "none" /\ hist[idx].arch = "none"
                /\ IsProtectionOf(leads[idx], encrypted_lead)
          /\ (ArchiveAttempted \/ s3' # s3) =>
                /\ hist[idx].store = "ok" /\ hist[idx].arch = "none"
                /\ encrypted_lead.lead_id \in DOMAIN db
          /\ Appends("lead_imported") =>
                /\ hist[idx].store = "ok" /\ hist[idx].arch # "none"
                /\ Len(auditLog) = hist[idx].logStart - 1]_vars

\* one batch with a record that went through all five steps with the archive
\* write failing, and a record whose store write failed and that was never
\* archived
C21_Witness ==
    /\ pc = "done"
    /\ \E i, j \in Records :
          /\ hist[i].gate = "admit" /\ hist[i].enc = "ok" /\ hist[i].store = "ok"
          /\ hist[i].arch = "fail"
          /\ CountKind(Segment(i), "lead_imported") = 1
          /\ hist[j].store = "fail" /\ hist[j].arch = "none"
          /\ CountKind(Segment(j), "lead_import_failed") = 1

\* -------------------------------------------------------------------- C22
\* C22: in every reachable state every row of the table and every archived
\* object carries consent_given = TRUE and tcpa_compliant = TRUE; a step
\* changes the table or the archive only for a record that has both flags
\* while it is processed, and the step that rejects a record (a re-import of a
\* stored lead_id with a flag now false included) changes neither.
C22_NothingStoredWithoutConsent ==
    /\ [](/\ \A id \in DOMAIN db : db[id].consent_given /\ db[id].tcpa_compliant
          /\ \A k \in DOMAIN s3 : s3[k].consent_given /\ s3[k].tcpa_compliant)
    /\ [][/\ (db' # db \/ s3' # s3) =>
                /\ idx \in DOMAIN leads
                /\ leads[idx].consent_given /\ leads[idx].tcpa_compliant
          /\ (/\ idx \in DOMAIN leads
              /\ ~leads[idx].consent_given \/ ~leads[idx].tcpa_compliant) =>
                (db' = db /\ s3' = s3)]_vars

\* a lead_id that is stored and archived was imported again with a flag false
\* and rejected; its row and its object are those of the consented import
C22_Witness ==
    /\ pc = "done"
    /\ \E i \in Records :
          /\ hist[i].gate = "reject" /\ hist[i].done
          /\ ~leads[i].consent_given
          /\ \E n \in 1..(hist[i].logStart - 1) :
                /\ auditLog[n].event_type = "lead_imported"
                /\ auditLog[n].lead_id = leads[i].lead_id
          /\ leads[i].lead_id \in DOMAIN db
          /\ db[leads[i].lead_id].consent_given
          /\ \E k \in DOMAIN s3 : s3[k].lead_id = leads[i].lead_id /\ s3[k].consent_given

\* -------------------------------------------------------------------- C23
\* the non-empty regulated values of the records a batch can hold
PlainValues ==
    {l[f].v : <<l, f>> \in {x \in LeadPool(0) \X HIPAAFields : Truthy(x[1][x[2]])}}

\* the details of an audit entry have the keys of its kind and no value among
\* them is a regulated plaintext
DetailsClean(e) ==
    IF e.event_type = "lead_rejected"
    THEN /\ DOMAIN e.details = {"reason"}
         /\ e.details.reason = "missing_consent"
    ELSE IF e.event_type = "lead_imported"
    THEN /\ DOMAIN e.details = {"source", "coverage_type", "encrypted"}
         /\ e.details.source \notin PlainValues
         /\ e.details.coverage_type \notin PlainValues
         /\ e.details.encrypted = TRUE
    ELSE /\ e.event_type = "lead_import_failed"
         /\ DOMAIN e.details = {"error"}
         /\ e.details.error \notin PlainValues

\* C23: no audit entry, whatever its kind, holds a plaintext regulated value:
\* an entry has the six keys of log_event, its details hold only the reason
\* (lead_rejected), the source, coverage type and encrypted flag
\* (lead_imported) or the error (lead_import_failed), and none of its strings
\* is a regulated value of a record.
C23_NoPlaintextInAuditEntries ==
    \A n \in 1..Len(auditLog) :
        /\ DOMAIN auditLog[n] =
              {"timestamp", "event_type", "lead_id", "details", "user", "ip_address"}
        /\ auditLog[n].lead_id \notin PlainValues
        /\ auditLog[n].user \notin PlainValues
        /\ auditLog[n].ip_address \notin PlainValues
        /\ DetailsClean(auditLog[n])

\* the log holds an entry of each kind about records with non-empty regulated
\* fields
C23_Witness ==
    /\ \A kind \in {"lead_rejected", "lead_imported", "lead_import_failed"} :
          CountKind(auditLog, kind) >= 1
    /\ pc = "done"
    /\ \A i \in Records : \E f \in HIPAAFields : Truthy(leads[i][f])

\* -------------------------------------------------------------------- C24
\* out has the fields of inp, equals inp on every non-regulated field and on
\* every empty or absent regulated field, and differs from inp on every
\* non-empty regulated field
FrameOfEncryptLead(inp, out) ==
    /\ DOMAIN out = DOMAIN inp
    /\ \A f \in DOMAIN inp \ HIPAAFields : out[f] = inp[f]
    /\ \A f \in HIPAAFields :
          IF inp[f].t = "str" /\ inp[f].v # "" THEN out[f] # inp[f] ELSE out[f] = inp[f]

\* C24: a call of _encrypt_lead, whether it returns or raises, leaves the
\* record it was given (and the whole batch) as it was; the record it returns
\* equals the input on lead_id, source, the names, zip code, state, coverage
\* type, notes, current coverage, contact time, created_at, imported_at and the
\* two consent flags, and differs from it only on the non-empty regulated
\* fields.
C24_EncryptLeadFrame ==
    /\ [](pc \in {"store", "archive", "audit"} => FrameOfEncryptLead(leads[idx], encrypted_lead))
    /\ [][pc = "encrypt" =>
             /\ leads' = leads
             /\ pc' = "store" => FrameOfEncryptLead(leads[idx], encrypted_lead')]_vars

\* _encrypt_lead returned for a record with a non-empty and an empty regulated
\* field: the copy differs from the input, which is still in the batch
C24_Witness ==
    /\ pc = "store"
    /\ hist[idx].enc = "ok"
    /\ encrypted_lead # leads[idx]
    /\ \E f \in HIPAAFields : leads[idx][f] = Str("") /\ encrypted_lead[f] = Str("")
    /\ \E f \in HIPAAFields : leads[idx][f].t = "str" /\ encrypted_lead[f].t = "token"
    /\ encrypted_lead.first_name = leads[idx].first_name

====
